---- MODULE Spec2Model ----
(***************************************************************************)
(* A model of the corates_ai experiment scripts:                           *)
(*   packages/ai/experiments/pdf_extraction.py   (PDF -> text -> LLM ->    *)
(*                                                JSON file)               *)
(*   packages/ai/experiments/sample_extraction.py                          *)
(*   packages/ai/src/corates_ai/extraction.py    (the lx.extract wrapper)  *)
(*                                                                         *)
(* Text is a sequence of one-character strings, so that the references     *)
(* pattern, str slicing, Path.stem and Path ordering are computed          *)
(* character by character, as the Python code computes them.               *)
(***************************************************************************)
EXTENDS Integers, Sequences, FiniteSets, TLC

VARIABLES
    pc,         \* position of the running script
    script,     \* which script's main() is running
    env,        \* os.environ.get("GOOGLE_API_KEY")
    argv,       \* sys.argv[1:]
    fs,         \* input side of the file system: [files, pdfsDir]
    pdf_files,  \* the work list of main(): sorted glob, or the one path given
    idx,        \* index into pdf_files of the file process_pdf works on
    doc,        \* the pages of the PDF pymupdf opened
    text,       \* extract_text_from_pdf's return value
    args,       \* the arguments of the last extract_study_metadata invocation
    invoked,    \* number of extract_study_metadata invocations
    calls,      \* the lx.extract calls made, in order
    lxreturn,   \* what the last lx.extract call did (its return value or Raised)
    result,     \* what extract_study_metadata returned to its caller
    entries,    \* extractions_to_dicts' return value
    outputDir,  \* whether OUTPUT_DIR exists
    outFiles,   \* the JSON files under OUTPUT_DIR: name -> content
    outInput,   \* history: the input path whose processing wrote each JSON file
    events,     \* the I/O steps of the current run, in order
    printed     \* the console lines of the current run (message kinds)

vars == <<pc, script, env, argv, fs, pdf_files, idx, doc, text, args, invoked,
          calls, lxreturn, result, entries, outputDir, outFiles, outInput,
          events, printed>>

(***************************************************************************)
(* Bounds of the model.                                                    *)
(***************************************************************************)
MaxPages == 2
MaxBlocks == 3
MaxDocs == 2
MaxExts == 2
MaxCalls == 2

\* Python's None, as a value no key, path or text of the model equals.
None == "<None>"

(***************************************************************************)
(* Characters.                                                             *)
(***************************************************************************)
\* str.lower() on the ASCII letters.
ToLower ==
    ("A" :> "a") @@ ("B" :> "b") @@ ("C" :> "c") @@ ("D" :> "d") @@
    ("E" :> "e") @@ ("F" :> "f") @@ ("G" :> "g") @@ ("H" :> "h") @@
    ("I" :> "i") @@ ("J" :> "j") @@ ("K" :> "k") @@ ("L" :> "l") @@
    ("M" :> "m") @@ ("N" :> "n") @@ ("O" :> "o") @@ ("P" :> "p") @@
    ("Q" :> "q") @@ ("R" :> "r") @@ ("S" :> "s") @@ ("T" :> "t") @@
    ("U" :> "u") @@ ("V" :> "v") @@ ("W" :> "w") @@ ("X" :> "x") @@
    ("Y" :> "y") @@ ("Z" :> "z")

Lower(c) == IF c \in DOMAIN ToLower THEN ToLower[c] ELSE c

\* The characters the regex class \s matches (those a TLA+ string can hold).
IsSpace(c) == c \in {" ", "\t", "\n", "\r", "\f"}

\* The alternatives of _REFERENCES_PATTERN's group, lower-cased (re.IGNORECASE).
REFERENCES_KEYWORDS ==
    { <<"r","e","f","e","r","e","n","c","e","s">>,
      <<"b","i","b","l","i","o","g","r","a","p","h","y">>,
      <<"w","o","r","k","s"," ","c","i","t","e","d">>,
      <<"l","i","t","e","r","a","t","u","r","e"," ","c","i","t","e","d">> }

(***************************************************************************)
(* pdf_extraction.py: _REFERENCES_PATTERN and extract_text_from_pdf.       *)
(* Positions are 1-based here; offset o of Python is position o + 1.       *)
(***************************************************************************)
\* Every character of t at positions a..b is whitespace (\s*).
AllSpace(t, a, b) == \A i \in a..b : IsSpace(t[i])

\* Keyword k stands at position i of t, ignoring case.
KeywordAt(t, i, k) ==
    /\ i + Len(k) - 1 <= Len(t)
    /\ \A j \in 1..Len(k) : Lower(t[i + j - 1]) = k[j]

\* ^ under re.MULTILINE: the start of the string or just after a newline.
AtLineStart(t, p) == p = 1 \/ t[p - 1] = "\n"

\* $ under re.MULTILINE: the end of the string or just before a newline.
AtLineEnd(t, p) == p = Len(t) + 1 \/ t[p] = "\n"

\* The pattern without its ^ anchor.
REFERENCES_PATTERN_match_unanchored(t, p) ==
    \E i \in p..(Len(t) + 1) :
       /\ AllSpace(t, p, i - 1)
       /\ \E k \in REFERENCES_KEYWORDS :
             /\ KeywordAt(t, i, k)
             /\ \E j \in (i + Len(k))..(Len(t) + 1) :
                   /\ AllSpace(t, i + Len(k), j - 1)
                   /\ AtLineEnd(t, j)

\* The pattern ^\s*(References|...)\s*$ matches t starting at position p.
REFERENCES_PATTERN_match(t, p) ==
    /\ AtLineStart(t, p)
    /\ \E i \in p..(Len(t) + 1) :
          /\ AllSpace(t, p, i - 1)
          /\ \E k \in REFERENCES_KEYWORDS :
                /\ KeywordAt(t, i, k)
                /\ \E j \in (i + Len(k))..(Len(t) + 1) :
                      /\ AllSpace(t, i + Len(k), j - 1)
                      /\ AtLineEnd(t, j)

\* _REFERENCES_PATTERN.search(text): the offset match.start() of the leftmost
\* match, -1 when there is none.
REFERENCES_PATTERN_search(t) ==
    LET starts == {p \in 1..(Len(t) + 1) : REFERENCES_PATTERN_match(t, p)}
    IN  IF starts = {} THEN -1
        ELSE (CHOOSE p \in starts : \A q \in starts : p <= q) - 1

\* The truncation keeping the wrong side: text[match.start() :].
strip_references_tail(t) ==
    LET start == REFERENCES_PATTERN_search(t)
    IN  IF start # -1 THEN SubSeq(t, start + 1, Len(t)) ELSE t

\* The search-and-truncate step: text[: match.start()] when the pattern matches.
strip_references(t) ==
    LET start == REFERENCES_PATTERN_search(t)
    IN  IF start # -1 THEN SubSeq(t, 1, start) ELSE t

RECURSIVE Concat(_)
\* The concatenation of a sequence of strings.
Concat(ss) == IF ss = <<>> THEN <<>> ELSE Head(ss) \o Concat(Tail(ss))

\* page.get_text(): the text of a page, its text blocks one after the other.
get_text(page) == Concat(page)

RECURSIVE join(_, _)
\* sep.join(ss)
join(sep, ss) ==
    IF ss = <<>> THEN <<>>
    ELSE IF Len(ss) = 1 THEN ss[1]
    ELSE ss[1] \o sep \o join(sep, Tail(ss))

\* "\n".join(pages) for the pages of document d, in page order.
joined_pages(d) == join(<<"\n">>, [i \in 1..Len(d) |-> get_text(d[i])])

extract_text_from_pdf(d) == strip_references(joined_pages(d))

(***************************************************************************)
(* Paths (pathlib).  A path is [dir, name]; the name is a string.          *)
(***************************************************************************)
PDFS_DIR == "pdfs"
OUTPUT_DIR == "output"

Path(d, n) == [dir |-> d, name |-> n]

\* str.rfind("."): the last position of a dot in name, 0 when there is none.
rfind_dot(name) ==
    LET dots == {i \in 1..Len(name) : name[i] = "."}
    IN  IF dots = {} THEN 0 ELSE CHOOSE i \in dots : \A j \in dots : j <= i

\* PurePath.stem: the name without its last suffix; a leading or a trailing
\* dot starts no suffix.
stem(name) ==
    LET i == rfind_dot(name)
    IN  IF 1 < i /\ i < Len(name) THEN SubSeq(name, 1, i - 1) ELSE name

\* The name matches the glob pattern "*.pdf".
matches_pdf(name) ==
    /\ Len(name) >= 4
    /\ SubSeq(name, Len(name) - 3, Len(name)) = <<".", "p", "d", "f">>

\* The characters of file names in code point order.
CodeOrder ==
    <<".", "0", "1", "2", "3", "4", "5", "6", "7", "8", "9",
      "A", "B", "C", "D", "E", "F", "G", "H", "I", "J", "K", "L", "M",
      "N", "O", "P", "Q", "R", "S", "T", "U", "V", "W", "X", "Y", "Z", "_",
      "a", "b", "c", "d", "e", "f", "g", "h", "i", "j", "k", "l", "m",
      "n", "o", "p", "q", "r", "s", "t", "u", "v", "w", "x", "y", "z">>

ord(c) == CHOOSE i \in DOMAIN CodeOrder : CodeOrder[i] = c

RECURSIVE str_lt(_, _)
\* a < b on strings: lexicographic by code point.
str_lt(a, b) ==
    IF b = <<>> THEN FALSE
    ELSE IF a = <<>> THEN TRUE
    ELSE IF Head(a) = Head(b) THEN str_lt(Tail(a), Tail(b))
    ELSE ord(Head(a)) < ord(Head(b))

\* p < q on the paths of one directory.
path_lt(p, q) == str_lt(p.name, q.name)

RECURSIVE sorted_descending(_)
\* sorted(paths, reverse=True).
sorted_descending(S) ==
    IF S = {} THEN <<>>
    ELSE LET m == CHOOSE p \in S : \A q \in S \ {p} : path_lt(q, p)
         IN  <<m>> \o sorted_descending(S \ {m})

RECURSIVE sorted(_)
\* sorted(paths): ascending.
sorted(S) ==
    IF S = {} THEN <<>>
    ELSE LET m == CHOOSE p \in S : \A q \in S \ {p} : path_lt(p, q)
         IN  <<m>> \o sorted(S \ {m})

\* PDFS_DIR.glob("*.pdf") on file system f.
glob_pdf(f) == {p \in f.files : p.dir = PDFS_DIR /\ matches_pdf(p.name)}

\* The test `v is None`.
is_none(v) == v = None

\* Python truthiness of an optional string: `not v`.
not_(v) == v = None \/ v = ""

(***************************************************************************)
(* corates_ai/extraction.py                                                *)
(***************************************************************************)
STUDY_EXTRACTION_PROMPT == "Extract study metadata from the research paper text. ..."
STUDY_EXTRACTION_EXAMPLES == <<"ExampleData: A Randomized Controlled Trial of ...">>
DEFAULT_MODEL_ID == "gemini-2.5-flash"

\* An exception raised by lx.extract, as the outcome of the call.
Raised == [raised |-> TRUE]

\* An extraction's attributes: None or a dict (its items, in order).
NoneAttrs == [isNone |-> TRUE]
Dict(items) == [isNone |-> FALSE, items |-> items]

Extraction(c, t, a) ==
    [extraction_class |-> c, extraction_text |-> t, attributes |-> a]

\* The fallback taken for every falsy argument: api_key or os.environ.get(...).
api_key_or_env(api_key) == IF not_(api_key) THEN env ELSE api_key

\* The api_key handed to lx.extract: the argument, or the environment's key
\* when the argument is None.
api_key_passed(api_key) == IF api_key = None THEN env ELSE api_key

\* The keyword arguments of the lx.extract call.
lx_extract_call(t, model_id, api_key) ==
    [text_or_documents |-> t,
     prompt_description |-> STUDY_EXTRACTION_PROMPT,
     examples |-> STUDY_EXTRACTION_EXAMPLES,
     model_id |-> model_id,
     api_key |-> api_key_passed(api_key)]

\* extract_study_metadata(text, model_id, api_key), the service answering with
\* one of Outcomes (a result, or Raised: the exception propagates).
extract_study_metadata(t, model_id, api_key, Outcomes) ==
    /\ args' = [text |-> t, model_id |-> model_id, api_key |-> api_key]
    /\ invoked' = invoked + 1
    /\ calls' = Append(calls, lx_extract_call(t, model_id, api_key))
    /\ \E r \in Outcomes : lxreturn' = r
    /\ result' = lxreturn'

(***************************************************************************)
(* pdf_extraction.py: extractions_to_dicts                                 *)
(***************************************************************************)
\* The documents of a result: list(result) when it has __iter__ (iter, with
\* its documents docs), else [result] (its one document doc).
documents_of(res) == IF res.iter THEN res.docs ELSE <<res.doc>>

\* The dict appended for extraction ext.
entry_of(ext) ==
    [class |-> ext.extraction_class,
     text |-> ext.extraction_text,
     attributes |-> IF ~ext.attributes.isNone /\ ext.attributes.items # <<>>
                    THEN ext.attributes.items ELSE <<>>]

\* The entries one document contributes.
entries_of_doc(d) ==
    IF "extractions" \notin DOMAIN d THEN <<>>
    ELSE [i \in 1..Len(d.extractions) |-> entry_of(d.extractions[i])]

\* The loop returning after its first document.
entries_of_first_doc(ds) == IF ds = <<>> THEN <<>> ELSE entries_of_doc(Head(ds))

RECURSIVE entries_of_docs(_)
\* The entries of the documents, in document order.
entries_of_docs(ds) ==
    IF ds = <<>> THEN <<>>
    ELSE entries_of_doc(Head(ds)) \o entries_of_docs(Tail(ds))

extractions_to_dicts(res) == entries_of_docs(documents_of(res))

(***************************************************************************)
(* The inputs the model draws from.                                        *)
(***************************************************************************)
\* Text blocks of PDF pages.
B_refs == <<"R","e","f","e","r","e","n","c","e","s">>
B_works == <<"W","O","R","K","S"," ","c","i","t","e","d">>
B_sp == <<" ">>
B_nl == <<"\n">>
B_num == <<"1", ".">>
B_colon == <<":">>
Blocks == {B_refs, B_works, B_sp, B_nl, B_num, B_colon}

\* The pages with at most n blocks.
PagesWith(n) == UNION {[1..m -> Blocks] : m \in 0..n}

RECURSIVE DocsWith(_, _)
\* The documents of exactly k pages holding at most n blocks in all.
DocsWith(k, n) ==
    IF k = 0 THEN {<<>>}
    ELSE UNION {{<<p>> \o d : d \in DocsWith(k - 1, n - Len(p))} : p \in PagesWith(n)}

DocInputs == UNION {DocsWith(k, MaxBlocks) : k \in 0..MaxPages}

\* The PDFs the scripts' runs read: one without and one with a references
\* section.
PdfDocs ==
    { << <<B_num, B_nl>> >>,
      << <<B_num, B_nl>>, <<B_refs, B_nl, B_num>> >> }

\* Extractions and documents the service answers with.
E_title == Extraction("title", "T", NoneAttrs)
E_authors == Extraction("authors", "A", Dict(<<>>))
E_design == Extraction("study_design", "RCT", Dict(<< <<"abbreviation", "RCT">> >>))
ExtInputs == {E_title, E_authors, E_design}

SeqsUpTo(S, n) == UNION {[1..m -> S] : m \in 0..n}

AnnotatedDocument(es) == [text |-> "t", extractions |-> es]
\* An object without an `extractions` attribute.
PlainObject == [text |-> "t"]

DocumentInputs ==
    {PlainObject} \cup {AnnotatedDocument(es) : es \in SeqsUpTo(ExtInputs, MaxExts)}

Single(d) == [iter |-> FALSE, doc |-> d]
Iterable(ds) == [iter |-> TRUE, docs |-> ds]

ResultInputs ==
    {Single(d) : d \in DocumentInputs}
        \cup {Iterable(ds) : ds \in SeqsUpTo(DocumentInputs, MaxDocs)}

\* What lx.extract answers in the scripts' runs.
ServiceResults ==
    { Single(AnnotatedDocument(<<>>)),
      Single(AnnotatedDocument(<<E_title, E_design>>)),
      Iterable(<<PlainObject, AnnotatedDocument(<<E_authors>>)>>) }

EnvKeys == {None, "", "env-key"}
ApiKeyArgs == {None, "", "arg-key"}
ModelIds == {DEFAULT_MODEL_ID, "gemini-2.5-pro"}

N_a == <<"a", ".", "p", "d", "f">>
N_b == <<"b", ".", "p", "d", "f">>
N_B == <<"B", ".", "p", "d", "f">>
N_txt == <<"n", ".", "t", "x", "t">>

\* The paths a run may be given or may find.
InputPaths ==
    { Path(PDFS_DIR, N_a), Path(PDFS_DIR, N_b), Path(PDFS_DIR, N_B),
      Path(PDFS_DIR, N_txt), Path("other", N_a) }

\* The file systems: the files that exist and whether pdfs/ exists (it does
\* when it holds a file).
FileSystems ==
    { [files |-> F, pdfsDir |-> d] :
        F \in SUBSET InputPaths, d \in BOOLEAN }
      \ { f \in [files : SUBSET InputPaths, pdfsDir : {FALSE}] :
            \E p \in f.files : p.dir = PDFS_DIR }

SAMPLE_ABSTRACT == <<"Effectiveness of Mindfulness-Based Stress Reduction ...">>

(***************************************************************************)
(* The scripts as a state machine.  A run is one invocation of a script's  *)
(* main(); the JSON files under OUTPUT_DIR outlive the runs.               *)
(***************************************************************************)
NoArgs == [text |-> <<>>, model_id |-> "", api_key |-> None]
NoResult == [none |-> TRUE]

Ev(kind, path) == [ev |-> kind, path |-> path]

MSG_KEY == <<"Error: Set GOOGLE_API_KEY in your .env file.", "See .env.example for details.">>
MSG_NOT_FOUND == <<"Error: File not found: {pdf_path}">>
MSG_NO_DIR == <<"Error: No pdfs/ directory found at {PDFS_DIR}",
                "Create it and add some PDF files, or pass a PDF path as an argument.">>
MSG_NO_PDFS == <<"No PDF files found in {PDFS_DIR}">>
MSG_FOUND == <<"Found {len(pdf_files)} PDF(s)">>
MSG_PROCESSING == <<"Processing: {pdf_path.name}">>
MSG_TEXT == <<"Extracted {word_count} words from {len(text)} characters",
              "Text preview:\n{preview}", "Running LangExtract...">>
MSG_ENTRIES == <<"[{entry['class']}]">>
MSG_NONE == <<"No extractions found.">>
MSG_SAVED == <<"Results saved to {out_path}">>
MSG_SAMPLE == <<"Extracting study metadata from sample abstract...">>

\* The locals of a run before main() has set them.
FreshRun ==
    /\ pdf_files' = <<>>
    /\ idx' = 0
    /\ doc' = <<>>
    /\ text' = <<>>
    /\ args' = NoArgs
    /\ invoked' = 0
    /\ calls' = <<>>
    /\ lxreturn' = NoResult
    /\ result' = NoResult
    /\ entries' = <<>>
    /\ events' = <<>>
    /\ printed' = <<>>

Init ==
    /\ pc = "idle"
    /\ script = "none"
    /\ env = None
    /\ argv = <<>>
    /\ fs \in FileSystems
    /\ pdf_files = <<>>
    /\ idx = 0
    /\ doc = <<>>
    /\ text = <<>>
    /\ args = NoArgs
    /\ invoked = 0
    /\ calls = <<>>
    /\ lxreturn = NoResult
    /\ result = NoResult
    /\ entries = <<>>
    /\ outputDir = FALSE
    /\ outFiles = <<>>
    /\ outInput = <<>>
    /\ events = <<>>
    /\ printed = <<>>

\* `uv run python experiments/<script>.py [path]` with GOOGLE_API_KEY = k.
Invoke(s, k, a) ==
    /\ pc \in {"idle", "done", "crashed"}
    /\ script' = s
    /\ env' = k
    /\ argv' = a
    /\ pc' = "main"
    /\ FreshRun
    /\ UNCHANGED <<fs, outputDir, outFiles, outInput>>

\* main() testing for the pdfs directory before it looks at the command line.
main_branch_dir_first ==
    IF not_(env) THEN "no_key"
    ELSE IF ~fs.pdfsDir THEN "no_dir"
    ELSE IF Len(argv) > 0
         THEN IF argv[1] \notin fs.files THEN "not_found" ELSE "single"
    ELSE IF sorted(glob_pdf(fs)) = <<>> THEN "no_pdfs"
    ELSE "directory"

\* The branch main() of pdf_extraction takes: its early returns, the single
\* file given on the command line, or the directory loop.
main_branch ==
    IF not_(env) THEN "no_key"
    ELSE IF Len(argv) > 0
         THEN IF argv[1] \notin fs.files THEN "not_found" ELSE "single"
    ELSE IF ~fs.pdfsDir THEN "no_dir"
    ELSE IF sorted(glob_pdf(fs)) = <<>> THEN "no_pdfs"
    ELSE "directory"

\* pdf_extraction.main() up to its first process_pdf call.
PdfMain ==
    /\ pc = "main"
    /\ script = "pdf_extraction"
    /\ LET b == main_branch
       IN  /\ printed' = CASE b = "no_key" -> MSG_KEY
                           [] b = "not_found" -> MSG_NOT_FOUND
                           [] b = "single" -> <<>>
                           [] b = "no_dir" -> MSG_NO_DIR
                           [] b = "no_pdfs" -> MSG_NO_PDFS
                           [] b = "directory" -> MSG_FOUND
           /\ pdf_files' = CASE b = "single" -> <<argv[1]>>
                             [] b = "directory" -> sorted(glob_pdf(fs))
                             [] OTHER -> <<>>
           /\ events' = IF b \in {"no_pdfs", "directory"}
                        THEN <<Ev("glob", Path(PDFS_DIR, <<>>))>>
                        ELSE <<>>
           /\ idx' = IF b \in {"single", "directory"} THEN 1 ELSE 0
           /\ pc' = IF b \in {"single", "directory"} THEN "process" ELSE "done"
    /\ UNCHANGED <<script, env, argv, fs, doc, text, args, invoked, calls,
                   lxreturn, result, entries, outputDir, outFiles, outInput>>

\* process_pdf with a failing PDF skipped: main() goes on to the next file.
ReadPdfSkipFailed ==
    /\ pc = "process"
    /\ LET pdf_path == pdf_files[idx]
       IN  \/ \E d \in PdfDocs :
                /\ doc' = d
                /\ text' = extract_text_from_pdf(d)
                /\ events' = Append(events, Ev("open", pdf_path))
                /\ printed' = printed \o MSG_PROCESSING \o MSG_TEXT
                /\ pc' = "extract"
                /\ idx' = idx
           \/ /\ events' = events \o <<Ev("open", pdf_path), Ev("raise", pdf_path)>>
              /\ printed' = printed \o MSG_PROCESSING
              /\ IF idx < Len(pdf_files)
                 THEN idx' = idx + 1 /\ pc' = "process"
                 ELSE idx' = idx /\ pc' = "done"
              /\ UNCHANGED <<doc, text>>
    /\ UNCHANGED <<script, env, argv, fs, pdf_files, args, invoked, calls,
                   lxreturn, result, entries, outputDir, outFiles, outInput>>

\* process_pdf up to extract_text_from_pdf's return: pymupdf opens the file
\* and reads its pages, or raises.
ReadPdf ==
    /\ pc = "process"
    /\ LET pdf_path == pdf_files[idx]
       IN  \/ \E d \in PdfDocs :
                /\ doc' = d
                /\ text' = extract_text_from_pdf(d)
                /\ events' = Append(events, Ev("open", pdf_path))
                /\ printed' = printed \o MSG_PROCESSING \o MSG_TEXT
                /\ pc' = "extract"
           \/ /\ events' = events \o <<Ev("open", pdf_path), Ev("raise", pdf_path)>>
              /\ printed' = printed \o MSG_PROCESSING
              /\ pc' = "crashed"
              /\ UNCHANGED <<doc, text>>
    /\ UNCHANGED <<script, env, argv, fs, pdf_files, idx, args, invoked, calls,
                   lxreturn, result, entries, outputDir, outFiles, outInput>>

\* process_pdf's extract_study_metadata(text) call.
CallExtract ==
    /\ pc = "extract"
    /\ extract_study_metadata(text, DEFAULT_MODEL_ID, None, ServiceResults \cup {Raised})
    /\ LET pdf_path == pdf_files[idx]
       IN  IF lxreturn' = Raised
           THEN /\ events' = events \o <<Ev("extract", pdf_path), Ev("raise", pdf_path)>>
                /\ pc' = "crashed"
           ELSE /\ events' = Append(events, Ev("extract", pdf_path))
                /\ pc' = "save"
    /\ UNCHANGED <<script, env, argv, fs, pdf_files, idx, doc, text, entries,
                   outputDir, outFiles, outInput, printed>>

\* The name of the JSON file process_pdf writes for pdf_path.
out_name_of(pdf_path) == stem(pdf_path.name) \o <<".", "j", "s", "o", "n">>

\* process_pdf saving only when there are entries.
SaveOutputIfEntries ==
    /\ pc = "save"
    /\ LET pdf_path == pdf_files[idx]
           es == extractions_to_dicts(result)
           out_name == out_name_of(pdf_path)
       IN  /\ entries' = es
           /\ IF es # <<>>
              THEN /\ printed' = printed \o MSG_ENTRIES \o MSG_SAVED
                   /\ outputDir' = TRUE
                   /\ outFiles' = (out_name :> [source |-> pdf_path.name, extractions |-> es])
                                      @@ outFiles
                   /\ outInput' = (out_name :> pdf_path) @@ outInput
                   /\ events' = Append(events, Ev("write", Path(OUTPUT_DIR, out_name)))
              ELSE /\ printed' = printed \o MSG_NONE
                   /\ UNCHANGED <<outputDir, outFiles, outInput, events>>
    /\ IF idx < Len(pdf_files)
       THEN idx' = idx + 1 /\ pc' = "process"
       ELSE idx' = idx /\ pc' = "done"
    /\ UNCHANGED <<script, env, argv, fs, pdf_files, doc, text, args, invoked,
                   calls, lxreturn, result>>

\* process_pdf from extractions_to_dicts to its return, and main()'s step to
\* the next file.
SaveOutput ==
    /\ pc = "save"
    /\ LET pdf_path == pdf_files[idx]
           es == extractions_to_dicts(result)
           out_name == out_name_of(pdf_path)
       IN  /\ entries' = es
           /\ printed' = printed \o (IF es # <<>> THEN MSG_ENTRIES ELSE MSG_NONE)
                                 \o MSG_SAVED
           /\ outputDir' = TRUE
           /\ outFiles' = (out_name :> [source |-> pdf_path.name, extractions |-> es])
                              @@ outFiles
           /\ outInput' = (out_name :> pdf_path) @@ outInput
           /\ events' = Append(events, Ev("write", Path(OUTPUT_DIR, out_name)))
    /\ IF idx < Len(pdf_files)
       THEN idx' = idx + 1 /\ pc' = "process"
       ELSE idx' = idx /\ pc' = "done"
    /\ UNCHANGED <<script, env, argv, fs, pdf_files, doc, text, args, invoked,
                   calls, lxreturn, result>>

\* sample_extraction.main() up to its extract_study_metadata call.
SampleMain ==
    /\ pc = "main"
    /\ script = "sample_extraction"
    /\ IF not_(env)
       THEN printed' = MSG_KEY /\ pc' = "done"
       ELSE printed' = MSG_SAMPLE /\ pc' = "sample_call"
    /\ UNCHANGED <<script, env, argv, fs, pdf_files, idx, doc, text, args,
                   invoked, calls, lxreturn, result, entries, outputDir,
                   outFiles, outInput, events>>

\* sample_extraction.main(): the call and the printing of its result.
SampleCall ==
    /\ pc = "sample_call"
    /\ extract_study_metadata(SAMPLE_ABSTRACT, DEFAULT_MODEL_ID, None,
                              ServiceResults \cup {Raised})
    /\ IF lxreturn' = Raised
       THEN pc' = "crashed" /\ UNCHANGED printed
       ELSE /\ pc' = "done"
            /\ printed' = printed \o
                 [i \in 1..Len(extractions_to_dicts(result')) |-> MSG_ENTRIES[1]]
    /\ UNCHANGED <<script, env, argv, fs, pdf_files, idx, doc, text, entries,
                   outputDir, outFiles, outInput, events>>

Next ==
    \/ \E k \in EnvKeys :
          \/ \E a \in {<<>>} \cup {<<p>> : p \in InputPaths} :
                Invoke("pdf_extraction", k, a)
          \/ Invoke("sample_extraction", k, <<>>)
    \/ PdfMain
    \/ ReadPdf
    \/ CallExtract
    \/ SaveOutput
    \/ SampleMain
    \/ SampleCall

Spec == Init /\ [][Next]_vars

(***************************************************************************)
(* The functions on their own, over bounded inputs.                        *)
(***************************************************************************)
\* The state outside a run of the scripts.
NoRun ==
    /\ script = "none"
    /\ argv = <<>>
    /\ fs = [files |-> {}, pdfsDir |-> FALSE]
    /\ pdf_files = <<>>
    /\ idx = 0
    /\ outputDir = FALSE
    /\ outFiles = <<>>
    /\ outInput = <<>>
    /\ events = <<>>
    /\ printed = <<>>

\* extract_text_from_pdf on every document of DocInputs.
TextInit ==
    /\ NoRun
    /\ pc = "extract_text"
    /\ env = None
    /\ doc \in DocInputs
    /\ text = <<>>
    /\ args = NoArgs
    /\ invoked = 0
    /\ calls = <<>>
    /\ lxreturn = NoResult
    /\ result = NoResult
    /\ entries = <<>>

ExtractText ==
    /\ pc = "extract_text"
    /\ text' = extract_text_from_pdf(doc)
    /\ pc' = "text_done"
    /\ UNCHANGED <<script, env, argv, fs, pdf_files, idx, doc, args, invoked,
                   calls, lxreturn, result, entries, outputDir, outFiles,
                   outInput, events, printed>>

TextNext == ExtractText

SpecText == TextInit /\ [][TextNext]_vars

\* extractions_to_dicts on every result of ResultInputs.
DictsInit ==
    /\ NoRun
    /\ pc = "to_dicts"
    /\ env = None
    /\ doc = <<>>
    /\ text = <<>>
    /\ args = NoArgs
    /\ invoked = 0
    /\ calls = <<>>
    /\ lxreturn = NoResult
    /\ result \in ResultInputs
    /\ entries = <<>>

ToDicts ==
    /\ pc = "to_dicts"
    /\ entries' = extractions_to_dicts(result)
    /\ pc' = "dicts_done"
    /\ UNCHANGED <<script, env, argv, fs, pdf_files, idx, doc, text, args,
                   invoked, calls, lxreturn, result, outputDir, outFiles,
                   outInput, events, printed>>

DictsNext == ToDicts

SpecDicts == DictsInit /\ [][DictsNext]_vars

\* extract_study_metadata called by an arbitrary caller, under any environment.
LibInit ==
    /\ NoRun
    /\ pc = "lib"
    /\ env \in EnvKeys
    /\ doc = <<>>
    /\ text = <<>>
    /\ args = NoArgs
    /\ invoked = 0
    /\ calls = <<>>
    /\ lxreturn = NoResult
    /\ result = NoResult
    /\ entries = <<>>

LibTexts == {<<"x">>, SAMPLE_ABSTRACT}

LibCall(t, model_id, api_key) ==
    /\ pc = "lib"
    /\ invoked < MaxCalls
    /\ extract_study_metadata(t, model_id, api_key, ServiceResults \cup {Raised})
    /\ UNCHANGED <<pc, script, env, argv, fs, pdf_files, idx, doc, text,
                   entries, outputDir, outFiles, outInput, events, printed>>

\* The environment variable is set or unset between calls.
LibSetEnv(k) ==
    /\ pc = "lib"
    /\ env' = k
    /\ UNCHANGED <<pc, script, argv, fs, pdf_files, idx, doc, text, args,
                   invoked, calls, lxreturn, result, entries, outputDir,
                   outFiles, outInput, events, printed>>

LibNext ==
    \/ \E t \in LibTexts, m \in ModelIds, k \in ApiKeyArgs : LibCall(t, m, k)
    \/ \E k \in EnvKeys : LibSetEnv(k)

SpecLib == LibInit /\ [][LibNext]_vars

(***************************************************************************)
(* Properties.  Lines are the maximal runs of text between newlines.       *)
(***************************************************************************)
\* The positions at which the lines of t start.
LineStarts(t) == {1} \cup {i + 1 : i \in {j \in 1..Len(t) : t[j] = "\n"}}

\* The position just past the line of t that starts at s.
LineStop(t, s) ==
    CHOOSE e \in s..(Len(t) + 1) :
        /\ e = Len(t) + 1 \/ t[e] = "\n"
        /\ \A j \in s..(e - 1) : t[j] # "\n"

LineAt(t, s) == SubSeq(t, s, LineStop(t, s) - 1)

\* l without its leading and trailing whitespace.
Stripped(l) ==
    LET ink == {i \in 1..Len(l) : ~IsSpace(l[i])}
    IN  IF ink = {} THEN <<>>
        ELSE SubSeq(l, CHOOSE i \in ink : \A j \in ink : i <= j,
                       CHOOSE i \in ink : \A j \in ink : j <= i)

Lowered(l) == [i \in 1..Len(l) |-> Lower(l[i])]

\* The line of t starting at s consists only of a references heading.
IsHeadingLine(t, s) == Lowered(Stripped(LineAt(t, s))) \in REFERENCES_KEYWORDS

HeadingStarts(t) == {s \in LineStarts(t) : IsHeadingLine(t, s)}

FirstHeading(t) == CHOOSE s \in HeadingStarts(t) : \A r \in HeadingStarts(t) : s <= r

\* t cut at the start of its first heading line; t itself without one.
CutAtHeading(t) ==
    IF HeadingStarts(t) = {} THEN t ELSE SubSeq(t, 1, FirstHeading(t) - 1)

\* The start of the run of whitespace-only lines that ends just before the
\* line starting at s (s itself when the line before is not whitespace-only).
BlankRunStart(t, s) ==
    CHOOSE b \in LineStarts(t) :
        /\ b <= s
        /\ \A i \in b..(s - 1) : IsSpace(t[i])
        /\ \A c \in LineStarts(t) :
              (c <= s /\ \A i \in c..(s - 1) : IsSpace(t[i])) => b <= c

\* t cut at the start of the blank lines leading to its first heading line.
CutAtBlankRun(t) ==
    IF HeadingStarts(t) = {} THEN t
    ELSE SubSeq(t, 1, BlankRunStart(t, FirstHeading(t)) - 1)

RECURSIVE PageOffset(_, _)
\* The number of characters that precede page i of d in the joined text.
PageOffset(d, i) ==
    IF i = 1 THEN 0 ELSE PageOffset(d, i - 1) + Len(get_text(d[i - 1])) + 1

\* j is the texts of d's pages in page order with one newline between them.
IsPagesJoined(j, d) ==
    /\ Len(j) = IF d = <<>> THEN 0 ELSE PageOffset(d, Len(d)) + Len(get_text(d[Len(d)]))
    /\ \A i \in 1..Len(d) :
          /\ i > 1 => j[PageOffset(d, i)] = "\n"
          /\ \A k \in 1..Len(get_text(d[i])) : j[PageOffset(d, i) + k] = get_text(d[i])[k]

\* C1 (as stated): extract_text_from_pdf returns the pages' texts joined with
\* newlines, cut at the start of the first line that consists only of a
\* references heading, and unchanged when there is no such line.
C1_CutAtHeadingLine ==
    pc = "text_done" =>
        /\ IsPagesJoined(joined_pages(doc), doc)
        /\ text = CutAtHeading(joined_pages(doc))

\* C1 (amended): extract_text_from_pdf returns the pages' texts joined with
\* newlines, cut at the start of the run of whitespace-only lines that leads
\* to the first heading-only line (at that line's start when no such blank
\* line precedes it), and unchanged when there is no heading-only line.
C1_CutAtBlankRun ==
    pc = "text_done" =>
        /\ IsPagesJoined(joined_pages(doc), doc)
        /\ text = CutAtBlankRun(joined_pages(doc))

\* A document whose heading line follows a blank line has been cut.
C1_Witness ==
    /\ pc = "text_done"
    /\ HeadingStarts(joined_pages(doc)) # {}
    /\ BlankRunStart(joined_pages(doc), FirstHeading(joined_pages(doc)))
          < FirstHeading(joined_pages(doc))
    /\ text # <<>>

\* C7: the text extract_text_from_pdf returns holds no references-heading
\* line, and the search-and-truncate step leaves it unchanged.
C7_NoHeadingLeft ==
    pc = "text_done" =>
        /\ HeadingStarts(text) = {}
        /\ strip_references(text) = text

\* A text has been truncated to a non-empty text that still names a keyword.
C7_Witness ==
    /\ pc = "text_done"
    /\ text # joined_pages(doc)
    /\ \E i \in 1..Len(text) : \E k \in REFERENCES_KEYWORDS : KeywordAt(text, i, k)

\* The documents a result holds, in order.
DocsOfResult(res) == IF res.iter THEN res.docs ELSE <<res.doc>>

\* The number of extractions of document d (none without the attribute).
ExtCount(d) == IF "extractions" \in DOMAIN d THEN Len(d.extractions) ELSE 0

RECURSIVE ExtsBefore(_, _)
\* The number of extractions of the documents before the i-th of ds.
ExtsBefore(ds, i) == IF i = 1 THEN 0 ELSE ExtsBefore(ds, i - 1) + ExtCount(ds[i - 1])

\* r is the record of extraction x.
IsRecordOf(r, x) ==
    /\ DOMAIN r = {"class", "text", "attributes"}
    /\ r.class = x.extraction_class
    /\ r.text = x.extraction_text
    /\ r.attributes = IF x.attributes.isNone THEN <<>> ELSE x.attributes.items

\* es holds one record per extraction of res, by document and then extraction.
IsRecordsOf(es, res) ==
    LET ds == DocsOfResult(res)
    IN  /\ Len(es) = ExtsBefore(ds, Len(ds) + 1)
        /\ \A i \in 1..Len(ds) : \A e \in 1..ExtCount(ds[i]) :
              IsRecordOf(es[ExtsBefore(ds, i) + e], ds[i].extractions[e])

\* C3: extractions_to_dicts returns exactly one record per extraction of every
\* document, in document order and then extraction order, each with the keys
\* class, text and attributes (None or empty attributes as an empty mapping);
\* documents without an extractions attribute contribute nothing.
C3_OneRecordPerExtraction ==
    pc = "dicts_done" => IsRecordsOf(entries, result)

\* An iterable of two documents, one without the extractions attribute and one
\* with an extraction whose attributes are None, has been converted.
C3_Witness ==
    /\ pc = "dicts_done"
    /\ result.iter
    /\ Len(result.docs) = 2
    /\ "extractions" \notin DOMAIN result.docs[1]
    /\ ExtCount(result.docs[2]) = 2
    /\ result.docs[2].extractions[1].attributes.isNone
    /\ Len(entries) = 2

\* C4: every invocation of extract_study_metadata makes exactly one lx.extract
\* call, with the caller's text and model_id, the fixed prompt and examples,
\* and as api_key the argument unless it is None, else the environment's key;
\* and it returns what that call returned.
C4_OneCallPerInvocation ==
    [][invoked' # invoked =>
         /\ invoked' = invoked + 1
         /\ Len(calls') = Len(calls) + 1
         /\ SubSeq(calls', 1, Len(calls)) = calls
         /\ LET c == calls'[Len(calls')]
            IN  /\ c.text_or_documents = args'.text
                /\ c.model_id = args'.model_id
                /\ c.prompt_description = STUDY_EXTRACTION_PROMPT
                /\ c.examples = STUDY_EXTRACTION_EXAMPLES
                /\ c.api_key = IF args'.api_key # None THEN args'.api_key ELSE env
         /\ result' = lxreturn']_vars

\* A call with an empty, not None, api_key argument passed the empty key on,
\* and one with None passed the environment's key.
C4_Witness ==
    /\ pc = "lib"
    /\ Len(calls) = 2
    /\ calls[1].api_key = "env-key"
    /\ calls[2].api_key = ""
    /\ args.api_key = ""
    /\ args.model_id # DEFAULT_MODEL_ID
    /\ result # Raised

\* GOOGLE_API_KEY is unset or empty.
KeyMissing == env = None \/ env = ""

Outputs == <<outputDir, outFiles, outInput>>

\* name ends with ".pdf".
EndsWithPdf(name) ==
    /\ Len(name) >= 4
    /\ name[Len(name) - 3] = "."
    /\ name[Len(name) - 2] = "p"
    /\ name[Len(name) - 1] = "d"
    /\ name[Len(name)] = "f"

\* The *.pdf files of the pdfs directory.
PdfPaths == {p \in fs.files : p.dir = PDFS_DIR /\ EndsWithPdf(p.name)}

\* The files of S in ascending order: the i-th has i - 1 files below it.
InOrder(S) ==
    [i \in 1..Cardinality(S) |->
        CHOOSE p \in S : Cardinality({q \in S : str_lt(q.name, p.name)}) = i - 1]

\* The I/O steps of processing p: text extraction, the service call, the write.
StepsOf(p) ==
    <<Ev("open", p), Ev("extract", p), Ev("write", Path(OUTPUT_DIR, out_name_of(p)))>>

\* The I/O steps of a complete directory run over the files S.
DirectorySteps(S) ==
    <<Ev("glob", Path(PDFS_DIR, <<>>))>>
        \o Concat([i \in 1..Cardinality(S) |-> StepsOf(InOrder(S)[i])])

IsNoRaise(e) == e.ev # "raise"
IsExtract(e) == e.ev = "extract"

IsPrefix(a, b) == Len(a) <= Len(b) /\ SubSeq(b, 1, Len(a)) = a

\* A run of pdf_extraction past main()'s checks, in directory mode.
DirRun ==
    /\ script = "pdf_extraction"
    /\ pc \notin {"idle", "main"}
    /\ ~KeyMissing
    /\ argv = <<>>
    /\ fs.pdfsDir
    /\ PdfPaths # {}

\* A run of pdf_extraction past main()'s checks, given a path.
SingleRun ==
    /\ script = "pdf_extraction"
    /\ pc \notin {"idle", "main"}
    /\ ~KeyMissing
    /\ argv # <<>>

\* No document of res has an extraction.
NoExtractions(res) ==
    \A i \in 1..Len(DocsOfResult(res)) : ExtCount(DocsOfResult(res)[i]) = 0

\* C2 (as stated): each PDF process_pdf finishes gets output/<stem>.json
\* holding its source name and records, and processing one input never
\* overwrites the file written for a different input.
C2_OneFilePerInput ==
    [][/\ pc = "save" =>
            LET p == pdf_files[idx]
            IN  /\ out_name_of(p) \in DOMAIN outFiles'
                /\ outFiles'[out_name_of(p)] =
                      [source |-> p.name, extractions |-> extractions_to_dicts(result)]
                /\ outInput'[out_name_of(p)] = p
       /\ \A o \in DOMAIN outInput :
            o \in DOMAIN outInput' /\ outInput'[o] = outInput[o]]_vars

\* C5: with GOOGLE_API_KEY unset or empty, main() of either script prints the
\* error and returns: nothing is opened, scanned or called, the outputs stay as
\* they are, and the run does nothing more.
C5_ApiKeyGate ==
    /\ [][(pc = "main" /\ KeyMissing) =>
            /\ pc' = "done"
            /\ printed' = MSG_KEY
            /\ events' = <<>>
            /\ calls' = <<>>
            /\ invoked' = 0
            /\ UNCHANGED Outputs]_vars
    /\ [][pc = "done" => pc' = "main" /\ events' = <<>> /\ UNCHANGED Outputs]_vars

\* The gate closed a single-file run on an existing PDF, with earlier outputs
\* in place.
C5_Witness ==
    /\ pc = "done"
    /\ script = "pdf_extraction"
    /\ env = ""
    /\ printed = MSG_KEY
    /\ argv # <<>>
    /\ argv[1] \in fs.files
    /\ outFiles # <<>>

\* C6: a directory run takes the *.pdf files of pdfs/ in ascending order, each
\* once, and for each file extracts the text, then calls the service once, then
\* writes its JSON file, before any step for the next file.
C6_SequentialDirectoryRun ==
    DirRun =>
        /\ IsPrefix(SelectSeq(events, IsNoRaise), DirectorySteps(PdfPaths))
        /\ Len(calls) = Len(SelectSeq(events, IsExtract))
        /\ pc = "done" => events = DirectorySteps(PdfPaths)

\* A directory run over three PDFs has finished.
C6_Witness ==
    /\ DirRun
    /\ pc = "done"
    /\ Cardinality(PdfPaths) = 3
    /\ Len(calls) = 3

\* C8: given a path, main() never scans pdfs/ and processes only that file,
\* and does nothing but print "File not found" when it does not exist; given
\* none, a missing pdfs/ or one without a *.pdf file ends the run with its
\* message, no service call and the outputs as they were.
C8_InputSelection ==
    /\ [](SingleRun =>
            /\ IsPrefix(SelectSeq(events, IsNoRaise), StepsOf(argv[1]))
            /\ \A i \in DOMAIN events : events[i].ev = "raise" => events[i].path = argv[1]
            /\ (pc = "done" /\ argv[1] \in fs.files) => events = StepsOf(argv[1])
            /\ argv[1] \notin fs.files =>
                  pc = "done" /\ events = <<>> /\ calls = <<>> /\ printed = MSG_NOT_FOUND)
    /\ [][(pc = "main" /\ script = "pdf_extraction" /\ ~KeyMissing
             /\ (IF argv # <<>> THEN argv[1] \notin fs.files
                 ELSE ~fs.pdfsDir \/ PdfPaths = {})) =>
            /\ pc' = "done"
            /\ calls' = <<>>
            /\ UNCHANGED Outputs
            /\ printed' = IF argv # <<>> THEN MSG_NOT_FOUND
                          ELSE IF ~fs.pdfsDir THEN MSG_NO_DIR ELSE MSG_NO_PDFS
            /\ \A i \in DOMAIN events' : events'[i].ev = "glob"]_vars

\* A run given an existing path has finished while pdfs/ does not exist.
C8_Witness ==
    /\ SingleRun
    /\ pc = "done"
    /\ argv[1] \in fs.files
    /\ ~fs.pdfsDir
    /\ Len(events) = 3

\* C9: process_pdf writes the PDF's JSON file whenever the extraction call
\* returns; with no extractions it prints "No extractions found." and the file
\* holds the source name and an empty extractions list.
C9_FileWrittenEvenWhenEmpty ==
    /\ [](\A i \in DOMAIN events : events[i].ev = "extract" =>
            \/ i = Len(events) /\ pc = "save"
            \/ i < Len(events) /\ events[i + 1].ev = "raise"
            \/ i < Len(events) /\ events[i + 1] =
                  Ev("write", Path(OUTPUT_DIR, out_name_of(events[i].path))))
    /\ [][pc = "save" =>
            LET p == pdf_files[idx]
                o == out_name_of(p)
            IN  /\ outputDir'
                /\ o \in DOMAIN outFiles'
                /\ outFiles'[o].source = p.name
                /\ IsRecordsOf(outFiles'[o].extractions, result)
                /\ NoExtractions(result) =>
                      /\ outFiles'[o] = [source |-> p.name, extractions |-> <<>>]
                      /\ printed' = printed \o MSG_NONE \o MSG_SAVED]_vars

\* A PDF without extractions has had its JSON file written.
C9_Witness ==
    /\ pc = "done"
    /\ script = "pdf_extraction"
    /\ events # <<>>
    /\ events[Len(events)].ev = "write"
    /\ NoExtractions(result)
    /\ MSG_NONE[1] = printed[Len(printed) - 1]
    /\ outFiles[events[Len(events)].path.name].extractions = <<>>

\* C10: when opening a PDF or the service call raises, the run ends there: no
\* output is written or altered by the failing step, no later file is
\* processed, and the outputs written before stay as they are.
C10_FailureEndsRun ==
    /\ [](\A i \in DOMAIN events : events[i].ev = "raise" =>
            /\ i = Len(events)
            /\ pc = "crashed"
            /\ events[i - 1].ev \in {"open", "extract"}
            /\ events[i - 1].path = events[i].path)
    /\ [][(events' # events /\ events' # <<>> /\ events'[Len(events')].ev = "raise") =>
            pc' = "crashed" /\ UNCHANGED Outputs]_vars
    /\ [][pc = "crashed" => pc' = "main" /\ events' = <<>> /\ UNCHANGED Outputs]_vars

\* The service call raised for the second file of a directory run, after the
\* first file's output was written.
C10_Witness ==
    /\ DirRun
    /\ pc = "crashed"
    /\ idx = 2
    /\ Len(pdf_files) = 3
    /\ events[Len(events) - 1].ev = "extract"
    /\ out_name_of(pdf_files[1]) \in DOMAIN outFiles
    /\ out_name_of(pdf_files[2]) \notin DOMAIN outFiles

====
